---- MODULE Spec2Model ----
(***************************************************************************)
(* Model of chapter1/poisson.ipynb: the notebook's code cells executed by  *)
(* a kernel (a namespace of bindings, one statement at a time), and the    *)
(* helper refine_array_1d of the visualization cell as a pure function.    *)
(*                                                                         *)
(* Values produced by the external libraries (sympde, psydac, sympy,       *)
(* numpy, matplotlib) are uninterpreted terms: an operation label and the  *)
(* values it was applied to.  Grid coordinates are exact rationals: a      *)
(* point of linspace(a, b, n+1) is kept as its numerator over the common   *)
(* denominator n.                                                          *)
(***************************************************************************)
EXTENDS Integers, Sequences, FiniteSets, TLC

VARIABLES
    \* ---- refine_array_1d called on its own ----
    breaks,     \* the argument breaks (a sequence of integers)
    N,          \* the argument N
    refined,    \* the local `refined`, then the returned array (numerators over N)
    rpc,        \* position in refine_array_1d: "l302", "l303", "returned", "ValueError"
    \* ---- the notebook kernel ----
    globals,    \* the kernel's global namespace: name -> value
    locals,     \* the frame of plot_solutions while it runs: name -> value
    pc,         \* index in Program of the current top-level statement (0: idle)
    bpc,        \* index in PlotSolutionsBody of the next statement (0: not in the call)
    mode,       \* "runall" (top-to-bottom run), "rerun" (one cell re-executed), "idle"
    error,      \* the exception that ended the last cell, "none" if it completed
    reruns,     \* number of single cells re-executed after the top-to-bottom run
    binds,      \* history: name -> number of times the global name was bound
    uses,       \* history: name -> number of statements that read the current binding
    execs,      \* history: source line -> number of times the statement ran
    firstSeen,  \* history: line of a norm cell -> values its names had on first execution
    lastSeen    \* history: line of a norm cell -> values its names had on latest execution

refineVars == <<breaks, N, refined, rpc>>
kernelVars == <<globals, locals, pc, bpc, mode, error, reruns,
                binds, uses, execs, firstSeen, lastSeen>>
vars == <<breaks, N, refined, rpc, globals, locals, pc, bpc, mode, error,
          reruns, binds, uses, execs, firstSeen, lastSeen>>

\* ---------------------------------------------------------------------------
\* Bounds of the model
\* ---------------------------------------------------------------------------
MaxLen == 3      \* longest breakpoint sequence handed to refine_array_1d
MaxVal == 3      \* breakpoints are drawn from 0..MaxVal
MaxN == 3        \* largest refinement count handed to refine_array_1d
MaxReruns == 2   \* single cells re-executed after the top-to-bottom run

\* ---------------------------------------------------------------------------
\* refine_array_1d (visualization cell)
\* ---------------------------------------------------------------------------

\* np.linspace(start, stop, num) for num >= 2: num equally spaced points from
\* start to stop, both included.  Point j (0-based) is start + j*(stop-start)/(num-1);
\* the sequence holds the numerators over the denominator num-1.
linspace(start, stop, num) ==
    [j \in 1..num |-> start * (num - 1) + (j - 1) * (stop - start)]

\* The slice s[:-1]: all but the last element.
DropLastKeepAll(s) == s
DropLast(s) == SubSeq(s, 1, Len(s) - 1)

\* np.linspace(breaks[i], breaks[i+1], N+1)[:-1]  (i is 1-based here)
IntervalPoints(b, i, n) == DropLast(linspace(b[i], b[i + 1], n + 1))

\* np.concatenate of the per-interval arrays for i in range(len(breaks)-1);
\* called only with at least one interval.
RECURSIVE Concatenate(_, _, _)
Concatenate(b, m, n) ==
    IF m = 0 THEN <<>> ELSE Concatenate(b, m - 1, n) \o IntervalPoints(b, m, n)

\* np.concatenate raises ValueError ("need at least one array to concatenate")
\* on an empty list, which is what range(len(breaks)-1) yields for one breakpoint.
ConcatenateRaises(b) == Len(b) - 1 <= 0

\* np.append(refined, breaks[-1]), in the units of `refined` (numerators over N).
AppendLast(r, b, n) == Append(r, b[Len(b)] * n)

\* The value refine_array_1d returns when it returns.
refine_array_1d(b, n) == AppendLast(Concatenate(b, Len(b) - 1, n), b, n)

\* All sequences over 0..MaxVal of length 1..MaxLen.
BreakSeqs == UNION {[1..k -> 0..MaxVal] : k \in 1..MaxLen}

RefineInit ==
    /\ breaks \in BreakSeqs
    /\ N \in 1..MaxN
    /\ refined = <<>>
    /\ rpc = "l302"

\* line 302: refined = np.concatenate([... for i in range(len(breaks)-1)])
RefineConcatenate ==
    /\ rpc = "l302"
    /\ IF ConcatenateRaises(breaks)
         THEN /\ rpc' = "ValueError"
              /\ refined' = refined
         ELSE /\ rpc' = "l303"
              /\ refined' = Concatenate(breaks, Len(breaks) - 1, N)
    /\ UNCHANGED <<breaks, N>>
    /\ UNCHANGED kernelVars

\* line 303: return np.append(refined, breaks[-1])
RefineAppend ==
    /\ rpc = "l303"
    /\ refined' = AppendLast(refined, breaks, N)
    /\ rpc' = "returned"
    /\ UNCHANGED <<breaks, N>>
    /\ UNCHANGED kernelVars

\* ---------------------------------------------------------------------------
\* Values and statements
\* ---------------------------------------------------------------------------

\* A value: the operation that produced it and the values it was applied to.
T(op, args) == [op |-> op, args |-> args]
Unbound == T("<unbound>", <<>>)
IsBound(val) == val # Unbound

\* A statement: its source line, the names it binds (with, for each, the
\* expression that produces the value), the names it loads in evaluation
\* order, and the names loaded once per point of the refined grid.
St(line, targets, ops, reads) ==
    [line |-> line, targets |-> targets, ops |-> ops, reads |-> reads,
     loopReads |-> <<>>, kind |-> "stmt"]
Loop(line, targets, ops, reads, loopReads) ==
    [line |-> line, targets |-> targets, ops |-> ops, reads |-> reads,
     loopReads |-> loopReads, kind |-> "stmt"]
Call(line, reads) ==
    [line |-> line, targets |-> <<>>, ops |-> <<>>, reads |-> reads,
     loopReads |-> <<>>, kind |-> "call"]

\* ---------------------------------------------------------------------------
\* The code cells of the notebook
\* ---------------------------------------------------------------------------

\* "Formal Model" cell
CellFormalModel == <<
    St(53, <<"BilinearForm", "LinearForm", "integral">>,
           <<"sympde.expr.BilinearForm", "sympde.expr.LinearForm",
             "sympde.expr.integral">>, <<>>),
    St(54, <<"find", "EssentialBC", "Norm", "SemiNorm">>,
           <<"sympde.expr.find", "sympde.expr.EssentialBC", "sympde.expr.Norm",
             "sympde.expr.SemiNorm">>, <<>>),
    St(55, <<"ScalarFunctionSpace", "Square", "element_of">>,
           <<"sympde.topology.ScalarFunctionSpace", "sympde.topology.Square",
             "sympde.topology.element_of">>, <<>>),
    St(56, <<"grad", "dot">>, <<"sympde.calculus.grad", "sympde.calculus.dot">>, <<>>),
    St(58, <<"plt">>, <<"matplotlib.pyplot">>, <<>>),
    St(59, <<"np">>, <<"numpy">>, <<>>),
    St(60, <<"make_axes_locatable">>,
           <<"mpl_toolkits.axes_grid1.make_axes_locatable">>, <<>>),
    St(62, <<"pi", "sin", "lambdify">>,
           <<"sympy.pi", "sympy.sin", "sympy.lambdify">>, <<>>),
    St(64, <<"domain">>, <<"Square()">>, <<"Square">>),
    St(66, <<"V">>, <<"ScalarFunctionSpace('V', domain)">>,
           <<"ScalarFunctionSpace", "domain">>),
    St(68, <<"x", "y">>, <<"domain.coordinates[0]", "domain.coordinates[1]">>,
           <<"domain">>),
    St(70, <<"u", "v">>, <<"element_of(V, name='u')", "element_of(V, name='v')">>,
           <<"element_of", "V">>),
    St(73, <<"a">>, <<"BilinearForm((u,v), integral(domain, dot(grad(v), grad(u))))">>,
           <<"BilinearForm", "u", "v", "integral", "domain", "dot", "grad">>),
    St(76, <<"f">>, <<"2*pi**2*sin(pi*x)*sin(pi*y)">>, <<"pi", "sin", "x", "y">>),
    St(77, <<"l">>, <<"LinearForm(v, integral(domain, f*v))">>,
           <<"LinearForm", "v", "integral", "domain", "f">>),
    St(80, <<"bc">>, <<"[EssentialBC(u, 0, domain.boundary)]">>,
           <<"EssentialBC", "u", "domain">>),
    St(83, <<"equation">>, <<"find(u, forall=v, lhs=a(u, v), rhs=l(v), bc=bc)">>,
           <<"find", "u", "v", "a", "l", "bc">>) >>

\* import of discretize
CellImportDiscretize == <<
    St(128, <<"discretize">>, <<"psydac.api.discretization.discretize">>, <<>>) >>

\* degree and ncells
CellParameters == <<
    St(138, <<"degree">>, <<"[3,3]">>, <<>>),
    St(139, <<"ncells">>, <<"[16,16]">>, <<>>) >>

\* "Discretization" cell
CellDiscretize == <<
    St(150, <<"domain_h">>, <<"discretize(domain, ncells=ncells, comm=None)">>,
            <<"discretize", "domain", "ncells">>),
    St(153, <<"Vh">>, <<"discretize(V, domain_h, degree=degree)">>,
            <<"discretize", "V", "domain_h", "degree">>),
    St(156, <<"equation_h">>, <<"discretize(equation, domain_h, [Vh, Vh])">>,
            <<"discretize", "equation", "domain_h", "Vh">>) >>

\* "Solving the PDE" cell
CellSolve == <<
    St(174, <<"uh">>, <<"equation_h.solve()">>, <<"equation_h">>) >>

\* Variants of the L2 cell: line 209 binding the test function v instead of the
\* trial function u, and line 219 substituting the symbolic u instead of uh.
CellL2RebindsV == <<
    St(208, <<"ue">>, <<"sin(pi*x)*sin(pi*y)">>, <<"sin", "pi", "x", "y">>),
    St(209, <<"v">>, <<"element_of(V, name='u')">>, <<"element_of", "V">>),
    St(212, <<"l2norm">>, <<"Norm(u - ue, domain, kind='l2')">>,
            <<"Norm", "u", "ue", "domain">>),
    St(213, <<>>, <<>>, <<"print", "l2norm">>),
    St(216, <<"l2norm_h">>, <<"discretize(norm, domain_h, Vh)">>,
            <<"discretize", "l2norm", "domain_h", "Vh">>),
    St(219, <<"l2_error">>, <<"norm_h.assemble(u=uh)">>, <<"l2norm_h", "uh">>),
    St(222, <<>>, <<>>, <<"print", "l2_error">>) >>
CellL2AssemblesU == <<
    St(208, <<"ue">>, <<"sin(pi*x)*sin(pi*y)">>, <<"sin", "pi", "x", "y">>),
    St(209, <<"u">>, <<"element_of(V, name='u')">>, <<"element_of", "V">>),
    St(212, <<"l2norm">>, <<"Norm(u - ue, domain, kind='l2')">>,
            <<"Norm", "u", "ue", "domain">>),
    St(213, <<>>, <<>>, <<"print", "l2norm">>),
    St(216, <<"l2norm_h">>, <<"discretize(norm, domain_h, Vh)">>,
            <<"discretize", "l2norm", "domain_h", "Vh">>),
    St(219, <<"l2_error">>, <<"norm_h.assemble(u=uh)">>, <<"l2norm_h", "u">>),
    St(222, <<>>, <<>>, <<"print", "l2_error">>) >>

\* "Computing the L2 norm" cell
CellL2 == <<
    St(208, <<"ue">>, <<"sin(pi*x)*sin(pi*y)">>, <<"sin", "pi", "x", "y">>),
    St(209, <<"u">>, <<"element_of(V, name='u')">>, <<"element_of", "V">>),
    St(212, <<"l2norm">>, <<"Norm(u - ue, domain, kind='l2')">>,
            <<"Norm", "u", "ue", "domain">>),
    St(213, <<>>, <<>>, <<"print", "l2norm">>),
    St(216, <<"l2norm_h">>, <<"discretize(norm, domain_h, Vh)">>,
            <<"discretize", "l2norm", "domain_h", "Vh">>),
    St(219, <<"l2_error">>, <<"norm_h.assemble(u=uh)">>, <<"l2norm_h", "uh">>),
    St(222, <<>>, <<>>, <<"print", "l2_error">>) >>

\* Variant of the H1 semi-norm cell: the discretized norm stored under the L2
\* cell's name l2norm_h.
CellSemiH1ReusesL2Name == <<
    St(241, <<"h1norm">>, <<"SemiNorm(u - ue, domain, kind='h1')">>,
            <<"SemiNorm", "u", "ue", "domain">>),
    St(244, <<"l2norm_h">>, <<"discretize(norm, domain_h, Vh)">>,
            <<"discretize", "h1norm", "domain_h", "Vh">>),
    St(247, <<"h1_error">>, <<"norm_h.assemble(u=uh)">>, <<"l2norm_h", "uh">>),
    St(250, <<>>, <<>>, <<"print", "h1_error">>) >>

\* "Computing the H1 semi-norm" cell
CellSemiH1 == <<
    St(241, <<"h1norm">>, <<"SemiNorm(u - ue, domain, kind='h1')">>,
            <<"SemiNorm", "u", "ue", "domain">>),
    St(244, <<"h1norm_h">>, <<"discretize(norm, domain_h, Vh)">>,
            <<"discretize", "h1norm", "domain_h", "Vh">>),
    St(247, <<"h1_error">>, <<"norm_h.assemble(u=uh)">>, <<"h1norm_h", "uh">>),
    St(250, <<>>, <<>>, <<"print", "h1_error">>) >>

\* "Computing the H1 norm" cell
CellH1 == <<
    St(269, <<"h1norm">>, <<"Norm(u - ue, domain, kind='h1')">>,
            <<"Norm", "u", "ue", "domain">>),
    St(272, <<"h1norm_h">>, <<"discretize(norm, domain_h, Vh)">>,
            <<"discretize", "h1norm", "domain_h", "Vh">>),
    St(275, <<"h1_error">>, <<"norm_h.assemble(u=uh)">>, <<"h1norm_h", "uh">>),
    St(278, <<>>, <<>>, <<"print", "h1_error">>) >>

\* Variant of the visualization cell: line 370 storing the callable under uh.
CellVisualizationClobbersUh == <<
    St(296, <<"np">>, <<"numpy">>, <<>>),
    St(297, <<"plt">>, <<"matplotlib.pyplot">>, <<>>),
    St(298, <<"make_axes_locatable">>,
            <<"mpl_toolkits.axes_grid1.make_axes_locatable">>, <<>>),
    St(300, <<"refine_array_1d">>, <<"def refine_array_1d(breaks, N)">>, <<>>),
    St(305, <<"plot_solutions">>, <<"def plot_solutions(Vh, uh, ue, N=10)">>, <<>>),
    St(370, <<"uh">>, <<"lambdify((x, y), expr, 'numpy')">>,
            <<"lambdify", "x", "y", "u">>),
    Call(371, <<"plot_solutions", "Vh", "uh", "ue">>) >>

\* "Visualization" cell: imports, the two defs, and the call site
CellVisualization == <<
    St(296, <<"np">>, <<"numpy">>, <<>>),
    St(297, <<"plt">>, <<"matplotlib.pyplot">>, <<>>),
    St(298, <<"make_axes_locatable">>,
            <<"mpl_toolkits.axes_grid1.make_axes_locatable">>, <<>>),
    St(300, <<"refine_array_1d">>, <<"def refine_array_1d(breaks, N)">>, <<>>),
    St(305, <<"plot_solutions">>, <<"def plot_solutions(Vh, uh, ue, N=10)">>, <<>>),
    St(370, <<"ue">>, <<"lambdify((x, y), expr, 'numpy')">>,
            <<"lambdify", "x", "y", "u">>),
    Call(371, <<"plot_solutions", "Vh", "uh", "ue">>) >>

\* The parameters of plot_solutions, bound positionally from the call's
\* arguments (the names after the callee in the call's reads); N is passed
\* by keyword at the call site.
PlotSolutionsParams == <<"Vh", "uh", "ue">>

\* The body of plot_solutions.  Names are resolved in the frame first, then
\* in the kernel's globals, then in the builtins.  The names refine_array_1d
\* itself loads (np, range, len) are loaded while the statement that calls it
\* runs.
PlotSolutionsBody == <<
    St(316, <<"eta1">>, <<"refine_array_1d(Vh.spaces[0].breaks, N)">>,
            <<"refine_array_1d", "Vh", "N", "np", "range", "len">>),
    St(317, <<"eta2">>, <<"refine_array_1d(Vh.spaces[1].breaks, N)">>,
            <<"refine_array_1d", "Vh", "N", "np", "range", "len">>),
    Loop(320, <<"num">>, <<"np.array([[f(e1, e2) for e2 in eta2] for e1 in eta1])">>,
            <<"np", "eta1">>, <<"eta2", "uh">>),
    Loop(323, <<"ex">>, <<"np.array([[f(e1, e2) for e2 in eta2] for e1 in eta1])">>,
            <<"np", "eta1">>, <<"eta2", "phi_exact">>),
    St(324, <<"err">>, <<"num - ex">>, <<"num", "ex">>),
    St(327, <<"xx", "yy">>, <<"np.meshgrid(eta1, eta2, indexing='ij')[0]",
                              "np.meshgrid(eta1, eta2, indexing='ij')[1]">>,
            <<"np", "eta1", "eta2">>),
    St(330, <<"fig", "axes">>, <<"plt.subplots(1, 3, figsize=(12.8, 4.8))[0]",
                                 "plt.subplots(1, 3, figsize=(12.8, 4.8))[1]">>,
            <<"plt">>),
    St(332, <<"add_colorbar">>, <<"def add_colorbar(im, ax)">>, <<>>),
    St(340, <<"ax">>, <<"axes[0]">>, <<"axes">>),
    St(341, <<"im">>, <<"ax.contourf(xx, yy, field, 40, cmap='jet')">>,
            <<"ax", "xx", "yy", "ex">>),
    St(342, <<>>, <<>>, <<"add_colorbar", "im", "ax", "make_axes_locatable">>),
    St(343, <<>>, <<>>, <<"ax">>),
    St(344, <<>>, <<>>, <<"ax">>),
    St(345, <<>>, <<>>, <<"ax">>),
    St(346, <<>>, <<>>, <<"ax">>),
    St(349, <<"ax">>, <<"axes[1]">>, <<"axes">>),
    St(350, <<"im">>, <<"ax.contourf(xx, yy, field, 40, cmap='jet')">>,
            <<"ax", "xx", "yy", "num">>),
    St(351, <<>>, <<>>, <<"add_colorbar", "im", "ax", "make_axes_locatable">>),
    St(352, <<>>, <<>>, <<"ax">>),
    St(353, <<>>, <<>>, <<"ax">>),
    St(354, <<>>, <<>>, <<"ax">>),
    St(355, <<>>, <<>>, <<"ax">>),
    St(358, <<"ax">>, <<"axes[2]">>, <<"axes">>),
    St(359, <<"im">>, <<"ax.contourf(xx, yy, field, 40, cmap='jet')">>,
            <<"ax", "xx", "yy", "err">>),
    St(360, <<>>, <<>>, <<"add_colorbar", "im", "ax", "make_axes_locatable">>),
    St(361, <<>>, <<>>, <<"ax">>),
    St(362, <<>>, <<>>, <<"ax">>),
    St(363, <<>>, <<>>, <<"ax">>),
    St(364, <<>>, <<>>, <<"ax">>),
    St(367, <<>>, <<>>, <<"plt">>),
    St(368, <<>>, <<>>, <<"fig">>) >>

\* The code cells in notebook order.
Cells == <<CellFormalModel, CellImportDiscretize, CellParameters, CellDiscretize,
           CellSolve, CellL2, CellSemiH1, CellH1, CellVisualization>>

\* The statements of a top-to-bottom run, each tagged with its cell.
RECURSIVE Flatten(_, _)
Flatten(cells, c) ==
    IF c = 0 THEN <<>>
    ELSE Flatten(cells, c - 1) \o
         [i \in 1..Len(cells[c]) |->
             [line |-> cells[c][i].line, targets |-> cells[c][i].targets,
              ops |-> cells[c][i].ops, reads |-> cells[c][i].reads,
              loopReads |-> cells[c][i].loopReads, kind |-> cells[c][i].kind,
              cell |-> c]]

Program == Flatten(Cells, Len(Cells))

\* The function body, as the kernel steps through it.
Body == PlotSolutionsBody

\* ---------------------------------------------------------------------------
\* The kernel
\* ---------------------------------------------------------------------------

NCells == 16    \* ncells = [16,16]
PlotN == 10     \* plot_solutions(Vh, uh, ue, N=10)

\* Vh.spaces[d].breaks: the NCells+1 uniform breakpoints of the unit interval,
\* in units of 1/NCells.
MeshBreaks == [i \in 1..(NCells + 1) |-> i - 1]

Range(s) == {s[i] : i \in 1..Len(s)}
StmtNames(s) == Range(s.targets) \cup Range(s.reads) \cup Range(s.loopReads)

Names ==
    UNION {StmtNames(Program[i]) : i \in 1..Len(Program)}
      \cup UNION {StmtNames(Body[i]) : i \in 1..Len(Body)}
      \cup Range(PlotSolutionsParams) \cup {"N"}

Lines == {Program[i].line : i \in 1..Len(Program)} \cup {Body[i].line : i \in 1..Len(Body)}

\* The statements of the three error-norm cells that load u, ue, domain_h, Vh, uh.
NormLines == {212, 216, 219, 241, 244, 247, 269, 272, 275}

Builtins == {"print", "range", "len"}

NoFrame == [n \in Names |-> Unbound]

\* Python name resolution: the function's frame, then the module globals,
\* then the builtins; Unbound stands for NameError.
InFrame(name) == bpc > 0 /\ IsBound(locals[name])
Lookup(name) ==
    IF InFrame(name) THEN locals[name]
    ELSE IF IsBound(globals[name]) THEN globals[name]
    ELSE IF name \in Builtins THEN T("builtin", <<T(name, <<>>)>>)
    ELSE Unbound

\* The statement the kernel is at.
AtStatement == pc > 0
Cur == IF bpc > 0 THEN Body[bpc] ELSE Program[pc]

\* The names a statement loads: those of a comprehension's element expression
\* are loaded only when the refined grid has a point.
EffReads(s) ==
    IF s.loopReads # <<>> /\ Len(refine_array_1d(MeshBreaks, PlotN)) > 0
      THEN s.reads \o s.loopReads
      ELSE s.reads

Resolvable(s) == \A i \in 1..Len(EffReads(s)) : IsBound(Lookup(EffReads(s)[i]))

ReadValues(s) == [i \in 1..Len(EffReads(s)) |-> Lookup(EffReads(s)[i])]
NewValues(s) == [i \in 1..Len(s.targets) |-> T(s.ops[i], ReadValues(s))]

\* The namespace ns after the statement's assignments.
Bound(ns, s) ==
    [n \in Names |->
        IF n \in Range(s.targets)
          THEN NewValues(s)[CHOOSE i \in 1..Len(s.targets) : s.targets[i] = n]
          ELSE ns[n]]

\* The names the statement reads from the kernel's globals.
GlobalReads(s) ==
    {n \in Range(EffReads(s)) : ~InFrame(n) /\ IsBound(globals[n])}

\* The kernel moves on from the top-level statement at pc: to the next
\* statement, or to idle at the end of the notebook (top-to-bottom run) or of
\* the cell (a single cell re-executed).
CellEnds ==
    \/ pc + 1 > Len(Program)
    \/ mode = "rerun" /\ Program[pc + 1].cell # Program[pc].cell
TopAdvance ==
    IF CellEnds THEN pc' = 0 /\ mode' = "idle"
                ELSE pc' = pc + 1 /\ mode' = mode

Record(s) ==
    /\ execs' = [execs EXCEPT ![s.line] = @ + 1]
    /\ uses' = [n \in Names |->
                  IF bpc = 0 /\ n \in Range(s.targets) THEN 0
                  ELSE IF n \in GlobalReads(s) THEN uses[n] + 1
                  ELSE uses[n]]
    /\ binds' = [n \in Names |->
                  IF bpc = 0 /\ n \in Range(s.targets) THEN binds[n] + 1 ELSE binds[n]]
    /\ IF bpc = 0 /\ s.line \in NormLines
         THEN /\ lastSeen' = [lastSeen EXCEPT ![s.line] = ReadValues(s) \o NewValues(s)]
              /\ firstSeen' = IF firstSeen[s.line] = <<>>
                                THEN [firstSeen EXCEPT ![s.line] = ReadValues(s) \o NewValues(s)]
                                ELSE firstSeen
         ELSE UNCHANGED <<firstSeen, lastSeen>>

KernelInit ==
    /\ globals = NoFrame
    /\ locals = NoFrame
    /\ pc = 1
    /\ bpc = 0
    /\ mode = "runall"
    /\ error = "none"
    /\ reruns = 0
    /\ binds = [n \in Names |-> 0]
    /\ uses = [n \in Names |-> 0]
    /\ execs = [ln \in Lines |-> 0]
    /\ firstSeen = [ln \in NormLines |-> <<>>]
    /\ lastSeen = [ln \in NormLines |-> <<>>]

\* An assignment, import, def or expression statement whose names all resolve.
ExecStatement ==
    /\ AtStatement
    /\ Cur.kind = "stmt"
    /\ Resolvable(Cur)
    /\ Record(Cur)
    /\ IF bpc = 0
         THEN /\ globals' = Bound(globals, Cur)
              /\ TopAdvance
              /\ UNCHANGED <<locals, bpc>>
         ELSE /\ globals' = globals
              /\ IF bpc < Len(Body)
                   THEN /\ locals' = Bound(locals, Cur)
                        /\ bpc' = bpc + 1
                        /\ UNCHANGED <<pc, mode>>
                   ELSE \* the body ends: the frame is dropped, the call returns
                        /\ locals' = NoFrame
                        /\ bpc' = 0
                        /\ TopAdvance
    /\ UNCHANGED <<error, reruns>>
    /\ UNCHANGED refineVars

\* line 371: plot_solutions(Vh, uh, ue, N=10) evaluates the callee and its
\* arguments, binds the parameters in a new frame and enters the body.
CallPlotSolutions ==
    /\ AtStatement
    /\ bpc = 0
    /\ Cur.kind = "call"
    /\ Resolvable(Cur)
    /\ Record(Cur)
    /\ locals' = [n \in Names |->
                    IF \E i \in 1..Len(PlotSolutionsParams) : PlotSolutionsParams[i] = n
                      THEN ReadValues(Cur)[1 + CHOOSE i \in 1..Len(PlotSolutionsParams) :
                                                    PlotSolutionsParams[i] = n]
                    ELSE IF n = "N" THEN T("10", <<>>)
                    ELSE Unbound]
    /\ bpc' = 1
    /\ UNCHANGED <<globals, pc, mode, error, reruns>>
    /\ UNCHANGED refineVars

\* A name of the statement resolves nowhere: NameError propagates out of the
\* call and the cell, the kernel stops executing (also the rest of a
\* top-to-bottom run) and keeps the bindings made so far.
RaiseNameError ==
    /\ AtStatement
    /\ ~Resolvable(Cur)
    /\ error' = "NameError"
    /\ locals' = NoFrame
    /\ bpc' = 0
    /\ pc' = 0
    /\ mode' = "idle"
    /\ UNCHANGED <<globals, reruns, binds, uses, execs, firstSeen, lastSeen>>
    /\ UNCHANGED refineVars

\* The user re-executes one code cell on its own.
RerunCell(c) ==
    /\ mode = "idle"
    /\ reruns < MaxReruns
    /\ pc' = CHOOSE i \in 1..Len(Program) :
                 Program[i].cell = c /\ \A j \in 1..(i - 1) : Program[j].cell # c
    /\ mode' = "rerun"
    /\ reruns' = reruns + 1
    /\ error' = "none"
    /\ UNCHANGED <<globals, locals, bpc, binds, uses, execs, firstSeen, lastSeen>>
    /\ UNCHANGED refineVars

RerunAnyCell == \E c \in 1..Len(Cells) : RerunCell(c)

\* ---------------------------------------------------------------------------
\* Specifications
\* ---------------------------------------------------------------------------

\* The notebook: one top-to-bottom run, then single cells re-executed.
Init ==
    /\ KernelInit
    /\ breaks = <<>> /\ N = 0 /\ refined = <<>> /\ rpc = "off"

Next == ExecStatement \/ CallPlotSolutions \/ RaiseNameError \/ RerunAnyCell

Spec == Init /\ [][Next]_vars

\* refine_array_1d applied to every bounded input.
RefineStart == RefineInit /\ KernelInit /\ pc = 1

RefineNext == RefineConcatenate \/ RefineAppend

RefineSpec == RefineStart /\ [][RefineNext]_vars

\* ---------------------------------------------------------------------------
\* Properties of refine_array_1d  (checked under RefineSpec)
\* ---------------------------------------------------------------------------

StrictlyIncreasing(q) == \A i \in 1..(Len(q) - 1) : q[i] < q[i + 1]

\* The indices of the returned points lying strictly between breaks[i] and
\* breaks[i+1] (the returned points are numerators over N).
Between(i) ==
    {j \in 1..Len(refined) : breaks[i] * N < refined[j] /\ refined[j] < breaks[i + 1] * N}

\* C1: whenever refine_array_1d returns for a (strictly increasing) breakpoint
\* sequence of length k, it returns exactly k + (k-1)*N points.
C1_ReturnsKPlusGapsTimesN ==
    (rpc = "returned" /\ StrictlyIncreasing(breaks)) => Len(refined) = Len(breaks) + (Len(breaks) - 1) * N

\* C2: for every pair of consecutive breakpoints breaks[i] < breaks[i+1] the
\* returned array holds exactly N points strictly between them, equally
\* spaced, and it holds every original breakpoint.
C2_NPointsBetweenEachPair ==
    rpc = "returned" =>
        \A i \in 1..(Len(breaks) - 1) :
            breaks[i] < breaks[i + 1] =>
                /\ Cardinality(Between(i)) = N
                /\ \A j \in Between(i) :
                       /\ 1 < j /\ j < Len(refined)
                       /\ refined[j] - refined[j - 1] = refined[j + 1] - refined[j]
                /\ \A m \in 1..Len(breaks) :
                       \E j \in 1..Len(refined) : refined[j] = breaks[m] * N

\* C3: for a strictly increasing breakpoint sequence the returned sequence is
\* strictly increasing, junctions between intervals and the appended last
\* point included.
C3_RefinedStrictlyIncreasing ==
    (rpc = "returned" /\ StrictlyIncreasing(breaks)) => StrictlyIncreasing(refined)

\* C3 witness: a strictly increasing sequence with two intervals (one junction)
\* refined with interior points has been returned.
C3_Witness ==
    /\ rpc = "returned"
    /\ StrictlyIncreasing(breaks)
    /\ Len(breaks) >= 3
    /\ N >= 2

\* C4: for every (strictly increasing) breakpoint sequence, a single
\* breakpoint included, the call returns
\* a sequence whose first value is breaks[0] and whose last value is breaks[-1].
C4_ReturnsWithFirstAndLast ==
    (rpc \in {"returned", "ValueError"} /\ StrictlyIncreasing(breaks)) =>
        /\ rpc = "returned"
        /\ refined[1] = breaks[1] * N
        /\ refined[Len(refined)] = breaks[Len(breaks)] * N

\* ---------------------------------------------------------------------------
\* Properties of the notebook run  (checked under Spec)
\* ---------------------------------------------------------------------------

\* The top-to-bottom run: no cell has been re-executed yet.
FirstRun == reruns = 0
FirstRunOver == reruns = 0 /\ mode = "idle"

StageOutputs == {"domain_h", "Vh", "equation_h", "uh",
                 "l2norm_h", "h1norm_h", "l2_error", "h1_error"}

SymbolicNames == {"domain", "V", "u", "v", "a", "l", "f", "bc", "equation", "ue",
                  "l2norm", "h1norm"}

\* C5: inside plot_solutions every name a statement loads is a parameter, a
\* local, an import (a global of the kernel) or a builtin; the numerical field
\* is computed by calling the parameter uh and the exact field by calling the
\* parameter ue; the call does not end in NameError.
C5_PlotSolutionsReadsItsParameters ==
    /\ bpc > 0 => Resolvable(Cur)
    /\ (bpc > 0 /\ "num" \in Range(Cur.targets)) => "uh" \in Range(EffReads(Cur))
    /\ (bpc > 0 /\ "ex" \in Range(Cur.targets)) => "ue" \in Range(EffReads(Cur))
    /\ error # "NameError"

\* C6 as stated: in the top-to-bottom run no stage output is bound twice and
\* none is consumed by more than one statement, and when the run is over each
\* has been bound once and consumed once.
C6_BoundOnceConsumedOnce ==
    FirstRun =>
        \A n \in StageOutputs :
            /\ binds[n] <= 1
            /\ uses[n] <= 1
            /\ mode = "idle" => (binds[n] = 1 /\ uses[n] = 1)

\* C6 amended: in the top-to-bottom run domain_h, Vh, equation_h, uh, l2norm_h
\* and l2_error are bound once and never rebound; h1norm_h and h1_error are
\* bound by the H1 semi-norm cell and rebound by the H1 norm cell, each after
\* the value it replaces has been consumed; every value of equation_h, of a
\* discretized norm and of a scalar error is consumed by exactly one statement,
\* while domain_h, Vh and uh are consumed by 5, 5 and 4 statements.
C6_StageOutputsBindingAndUse ==
    FirstRun =>
        /\ \A n \in {"domain_h", "Vh", "equation_h", "uh", "l2norm_h", "l2_error"} :
               binds[n] <= 1
        /\ \A n \in {"h1norm_h", "h1_error"} : binds[n] <= 2
        /\ \A n \in {"equation_h", "l2norm_h", "h1norm_h", "l2_error", "h1_error"} :
               uses[n] <= 1
        /\ binds["h1norm_h"] = 2 => execs[247] = 1
        /\ binds["h1_error"] = 2 => execs[250] = 1
        /\ mode = "idle" =>
               /\ \A n \in {"domain_h", "Vh", "equation_h", "uh", "l2norm_h", "l2_error"} :
                      binds[n] = 1
               /\ \A n \in {"h1norm_h", "h1_error"} : binds[n] = 2
               /\ \A n \in {"equation_h", "l2norm_h", "h1norm_h", "l2_error", "h1_error"} :
                      uses[n] = 1
               /\ uses["domain_h"] = 5
               /\ uses["Vh"] = 5
               /\ uses["uh"] = 4

\* C6 witness: the top-to-bottom run is over, with h1norm_h and h1_error rebound.
C6_Witness ==
    FirstRunOver /\ binds["h1norm_h"] = 2 /\ binds["h1_error"] = 2 /\ uses["domain_h"] = 5

\* The top-level statement of a source line, and the value a name had when a
\* norm-cell statement loaded it.
StmtAt(ln) == Program[CHOOSE i \in 1..Len(Program) : Program[i].line = ln]
SeenOf(seen, ln, name) ==
    seen[ln][CHOOSE i \in 1..Len(StmtAt(ln).reads) : StmtAt(ln).reads[i] = name]
Last(q) == q[Len(q)]

\* The operations that build symbolic entities (formal-model and norm cells)
\* and the operations that build discretized ones.
SymbolicOps ==
    UNION {{Program[i].ops[j] : j \in {m \in 1..Len(Program[i].targets) :
                                          Program[i].targets[m] \in SymbolicNames}} :
           i \in {k \in 1..Len(Program) : Program[k].cell \in {1, 6, 7, 8}}}
DiscretizedNames == {"domain_h", "Vh", "equation_h", "l2norm_h", "h1norm_h"}
AssembledNames == {"uh", "l2_error", "h1_error"}
DiscreteOps ==
    UNION {{Program[i].ops[j] : j \in {m \in 1..Len(Program[i].targets) :
                                          Program[i].targets[m] \in DiscretizedNames}} :
           i \in 1..Len(Program)}
ParentsIn(val, ops) == {i \in 1..Len(val.args) : val.args[i].op \in ops}

\* The symbolic names the notebook never rebinds once discretization started.
StableSymbolic == {"domain", "V", "v", "a", "l", "f", "bc", "equation", "l2norm"}

\* C7 as stated: in the top-to-bottom run, once the first discretize call
\* (line 150) has run, no bound symbolic name is bound again.
C7_NoSymbolicRebinding ==
    [][(FirstRun /\ execs[150] > 0) =>
          \A n \in SymbolicNames : IsBound(globals[n]) => binds'[n] = binds[n]]_vars

\* Every discretized entity has exactly one symbolic entity among the values it
\* was built from, every solved or assembled one exactly one discretized entity.
SingleAncestor ==
    /\ \A n \in DiscretizedNames :
           IsBound(globals[n]) => Cardinality(ParentsIn(globals[n], SymbolicOps)) = 1
    /\ \A n \in AssembledNames :
           IsBound(globals[n]) =>
               /\ Cardinality(ParentsIn(globals[n], DiscreteOps)) = 1
               /\ ParentsIn(globals[n], SymbolicOps) = {}

\* C7 amended: in the top-to-bottom run, once the first discretize call has
\* run, domain, V, v, a, l, f, bc, equation and l2norm are never bound again;
\* u is bound again (line 209) only to an equal element; ue (lines 208, 370),
\* u and h1norm (lines 241, 269) are bound at most twice; no value is changed
\* in place; and every discretized or assembled entity is derived from exactly
\* one symbolic, respectively discretized, entity.
C7_RebindingOnlyOfUUeH1norm ==
    /\ [](FirstRun =>
            /\ binds["u"] <= 2 /\ binds["ue"] <= 2 /\ binds["h1norm"] <= 2
            /\ SingleAncestor)
    /\ [][(FirstRun /\ execs[150] > 0) =>
            /\ \A n \in StableSymbolic : IsBound(globals[n]) => binds'[n] = binds[n]
            /\ IsBound(globals["u"]) => globals'["u"] = globals["u"]
            /\ \A n \in SymbolicNames :
                   binds'[n] = binds[n] => globals'[n] = globals[n]]_vars

\* C7 witness: the top-to-bottom run is over; u, ue and h1norm were each bound
\* twice and everything was discretized.
C7_Witness ==
    /\ FirstRunOver
    /\ binds["u"] = 2 /\ binds["ue"] = 2 /\ binds["h1norm"] = 2
    /\ \A n \in DiscretizedNames \cup AssembledNames : IsBound(globals[n])

\* C8: in the top-to-bottom run the statements execute once each in notebook
\* order; Vh is built from domain_h, equation_h from domain_h and Vh; solve runs
\* once, on equation_h; each of the l2, semi-h1 and h1 norms is discretized and
\* then assembled after solve with the solved field uh substituted for u; when
\* the run is over all three have been assembled.
C8_FixedStageOrder ==
    FirstRun =>
        /\ \A i, j \in 1..Len(Program) :
               (i < j /\ execs[Program[j].line] > 0) => execs[Program[i].line] > 0
        /\ \A i \in 1..Len(Program) : execs[Program[i].line] <= 1
        /\ IsBound(globals["Vh"]) =>
               IsBound(globals["domain_h"]) /\ globals["domain_h"] \in Range(globals["Vh"].args)
        /\ IsBound(globals["equation_h"]) =>
               /\ IsBound(globals["Vh"])
               /\ globals["Vh"] \in Range(globals["equation_h"].args)
               /\ globals["domain_h"] \in Range(globals["equation_h"].args)
        /\ IsBound(globals["uh"]) =>
               /\ IsBound(globals["equation_h"])
               /\ globals["uh"] = T("equation_h.solve()", <<globals["equation_h"]>>)
               /\ execs[174] = 1
        /\ \A ln \in {219, 247, 275} :
               execs[ln] > 0 =>
                   /\ execs[174] = 1
                   /\ IsBound(globals["uh"])
                   /\ lastSeen[ln][1].op = "discretize(norm, domain_h, Vh)"
                   /\ Last(lastSeen[ln]) =
                          T("norm_h.assemble(u=uh)", <<lastSeen[ln][1], globals["uh"]>>)
        /\ execs[219] > 0 => lastSeen[219][1].args[2].op = "Norm(u - ue, domain, kind='l2')"
        /\ execs[247] > 0 => lastSeen[247][1].args[2].op = "SemiNorm(u - ue, domain, kind='h1')"
        /\ execs[275] > 0 => lastSeen[275][1].args[2].op = "Norm(u - ue, domain, kind='h1')"
        /\ mode = "idle" =>
               execs[174] = 1 /\ execs[219] = 1 /\ execs[247] = 1 /\ execs[275] = 1

\* C8 witness: the top-to-bottom run is over and the three norms were assembled.
C8_Witness ==
    FirstRunOver /\ execs[174] = 1 /\ execs[219] = 1 /\ execs[247] = 1 /\ execs[275] = 1

\* The exact solution expression of line 208, as the kernel evaluates it.
UeExpression ==
    T(CellL2[1].ops[1], [i \in 1..Len(CellL2[1].reads) |-> globals[CellL2[1].reads[i]]])

\* C9: the third argument the notebook passes to plot_solutions is lambdify
\* applied to the exact solution expression sin(pi*x)*sin(pi*y).
C9_CallableBuiltFromExactSolution ==
    bpc > 0 =>
        /\ locals["ue"].op = "lambdify((x, y), expr, 'numpy')"
        /\ Last(locals["ue"].args) = UeExpression

\* The names whose bindings the error-norm cells depend on.
Tracked == {"u", "ue", "domain_h", "Vh", "uh"}
TrackedAt(ln) == Tracked \cap Range(StmtAt(ln).reads)

\* C10 as stated: every execution of a norm-cell statement sees the values of
\* u, ue, domain_h, Vh and uh that its first execution saw, and produces the
\* value it first produced.
C10_NormCellsIdempotent ==
    \A ln \in NormLines :
        firstSeen[ln] # <<>> =>
            /\ \A n \in TrackedAt(ln) : SeenOf(lastSeen, ln, n) = SeenOf(firstSeen, ln, n)
            /\ Last(lastSeen[ln]) = Last(firstSeen[ln])

\* The callable line 370 binds to ue.
CallableUe ==
    T(CellVisualization[6].ops[1],
      [i \in 1..Len(CellVisualization[6].reads) |-> globals[CellVisualization[6].reads[i]]])

\* C10 amended: every execution of a statement of the L2 cell sees the values
\* of u, ue, domain_h, Vh and uh its first execution saw and produces the same
\* value (the cell binds ue and u itself); every execution of a statement of
\* the H1 semi-norm or H1 norm cell sees the same u, domain_h, Vh and uh, while
\* ue is either the expression it first saw or the callable of line 370.
C10_OnlyL2CellIdempotent ==
    \A ln \in NormLines :
        firstSeen[ln] # <<>> =>
            /\ \A n \in TrackedAt(ln) \ {"ue"} :
                   SeenOf(lastSeen, ln, n) = SeenOf(firstSeen, ln, n)
            /\ ln \in {212, 216, 219} => lastSeen[ln] = firstSeen[ln]
            /\ "ue" \in TrackedAt(ln) =>
                   SeenOf(lastSeen, ln, "ue") \in {SeenOf(firstSeen, ln, "ue"), CallableUe}

\* C10 witness: after the top-to-bottom run the H1 semi-norm cell alone was
\* re-executed and saw the callable in ue, and so was the L2 cell.
C10_Witness ==
    /\ mode = "idle"
    /\ execs[241] = 2 /\ execs[247] = 2
    /\ execs[212] = 2 /\ execs[219] = 2
    /\ SeenOf(lastSeen, 241, "ue") = CallableUe
    /\ SeenOf(lastSeen, 241, "ue") # SeenOf(firstSeen, 241, "ue")

====
